---- MODULE Spec2Model ----
(***************************************************************************)
(* Coffee_Predictions: per-item daily demand forecasting.                  *)
(*                                                                         *)
(* The store (items, daily_item_sales, forecasts, model_runs), the single  *)
(* "latest" model artifact, and the operations of the pipeline:            *)
(*   preprocess_hipos_file  (src/ingest/load_sales.py)                     *)
(*   load_sales_data        (src/ingest/load_sales.py)                     *)
(*   build_features         (src/features/build_features.py)               *)
(*   train_model/_get_model (src/models/train.py)                          *)
(*   generate_forecasts     (src/models/predict.py)                        *)
(*                                                                         *)
(* Dates are canonical YYYY-MM-DD strings, modelled as <<year, month, day>>*)
(* triples of the non-leap year 2018 (1 January 2018 is a Monday).  The    *)
(* datetime behind a string is its day number in that year.                *)
(* Quantities are naturals; a mean is an exact fraction in lowest terms.   *)
(***************************************************************************)
EXTENDS Integers, Sequences, FiniteSets, TLC

VARIABLES
    hasPromoCols,  \* daily_item_sales has the promotion_discount / is_holiday columns
    items,         \* items relation: the set of item ids
    sales,         \* daily_item_sales relation: set of rows, unique by (date, item_id)
    forecasts,     \* forecasts relation: set of rows, unique by (date, item_id, run_id)
    model_runs,    \* model_runs relation: set of rows, unique by run_id
    artifact,      \* what is at <model_dir>/latest.model
    config,        \* the configuration: model.type, forecast.horizon, and the
                   \* required fields that are missing from it
    env,           \* which regressor libraries import (train.py, lines 9-29)
    today,         \* the day number datetime.now() falls on
    uuids,         \* number of uuid4() tokens generated so far
    sales_df,      \* build_features: the table passed in
    feature_df,    \* build_features: the table returned
    last,          \* the most recent call: operation, inputs, result
    invocations    \* one record per generate_forecasts call that wrote, in call order

vars == <<hasPromoCols, items, sales, forecasts, model_runs, artifact, config, env,
          today, uuids, sales_df, feature_df, last, invocations>>

(***************************************************************************)
(* Bounds of the model.                                                    *)
(***************************************************************************)
MaxItems == 2       \* item ids are 1..MaxItems
MaxQty == 1         \* a HIPOS row sells 1..MaxQty units
MaxHorizon == 2     \* forecast.horizon ranges over 0..MaxHorizon
MaxRuns == 2        \* forecast runs written in one behaviour
MaxIngest == 2      \* rows ever present in daily_item_sales through ingestion
MaxAdvance == 1     \* days the clock moves forward in one behaviour
MaxHist == 29       \* longest pre-existing history of one item, in rows
Today0 == 120       \* day number of the first "today" (120 = 2018-04-30)
MaxShort == 3       \* longest history tried with every row order and column choice
MaxTrain == 1       \* rows of model_runs in one behaviour
MaxFileRows == 2    \* rows of one HIPOS file

ItemIds == 1..MaxItems

(***************************************************************************)
(* Calendar: datetime.strptime / strftime("%Y-%m-%d") / timedelta(days=1). *)
(***************************************************************************)
CumDays == <<0, 31, 59, 90, 120, 151, 181, 212, 243, 273, 304, 334, 365>>

MonthOf(n) == CHOOSE m \in 1..12 : CumDays[m] < n /\ n <= CumDays[m + 1]

\* datetime -> "YYYY-MM-DD"
strftime(n) == <<2018, MonthOf(n), n - CumDays[MonthOf(n)]>>

\* "YYYY-MM-DD" -> datetime (also pd.to_datetime on a canonical string)
strptime(s) == CumDays[s[2]] + s[3]

\* Timestamp.dayofweek: Monday = 0 .. Sunday = 6
dayofweek(n) == (n - 1) % 7

\* dates.get_today
get_today == strftime(today)

RECURSIVE date_range_from(_, _)
date_range_from(current, days) ==
    IF days <= 0 THEN <<>>
    ELSE <<strftime(current)>> \o date_range_from(current + 1, days - 1)

\* mutant: the range starts the day after start_date
get_date_range_after(start_date, days) ==
    date_range_from(strptime(start_date) + 1, days)

\* dates.get_date_range(start_date, days)
get_date_range(start_date, days) == date_range_from(strptime(start_date), days)

(***************************************************************************)
(* Arithmetic helpers: Series.sum / Series.mean on naturals.               *)
(***************************************************************************)
RECURSIVE GCD(_, _)
GCD(a, b) == IF b = 0 THEN a ELSE GCD(b, a % b)

\* the float num/den, kept exact
Frac(num, den) ==
    LET g == GCD(num, den) IN [num |-> num \div g, den |-> den \div g]

Zero == Frac(0, 1)

RECURSIVE SeqSum(_)
SeqSum(s) == IF s = <<>> THEN 0 ELSE Head(s) + SeqSum(Tail(s))

\* Series.mean of a non-empty sequence of quantities
Mean(s) == Frac(SeqSum(s), Len(s))

\* Series.tail(n)
TailN(s, n) == IF Len(s) <= n THEN s ELSE SubSeq(s, Len(s) - n + 1, Len(s))

(***************************************************************************)
(* Tables (pandas DataFrame): the column names and the rows, in order.     *)
(***************************************************************************)
DataFrame(columns, rows) == [columns |-> columns, rows |-> rows]

empty(df) == df.rows = <<>>

SalesColumns == <<"date", "item_id", "quantity", "promotion_discount", "is_holiday">>

ForecastColumns == <<"date", "item_id", "predicted_quantity">>

Range(s) == {s[i] : i \in DOMAIN s}

\* the sort key of a row: "date" (pd.to_datetime order), "item_date"
\* (sort_values(["item_id", "date"])) or "date_item" (ORDER BY date, item_id)
SortKey(r, by) ==
    CASE by = "date" -> strptime(r.date)
      [] by = "item_date" -> r.item_id * 1000 + strptime(r.date)
      [] by = "date_item" -> strptime(r.date) * 1000 + r.item_id

RECURSIVE InsertSorted(_, _, _)
InsertSorted(r, s, by) ==
    IF s = <<>> THEN <<r>>
    ELSE IF SortKey(r, by) <= SortKey(Head(s), by) THEN <<r>> \o s
    ELSE <<Head(s)>> \o InsertSorted(r, Tail(s), by)

\* a stable sort of the rows by the key, ascending
RECURSIVE sort_values(_, _)
sort_values(s, by) ==
    IF s = <<>> THEN <<>>
    ELSE InsertSorted(Head(s), sort_values(Tail(s), by), by)

RECURSIVE SetToSeq(_)
SetToSeq(S) ==
    IF S = {} THEN <<>>
    ELSE LET x == CHOOSE y \in S : TRUE IN <<x>> \o SetToSeq(S \ {x})

(***************************************************************************)
(* load_sales.load_sales_data: SELECT ... COALESCE(promotion_discount, 0)  *)
(* ... FROM daily_item_sales ORDER BY date, item_id.  The SELECT names the *)
(* promotion_discount and is_holiday columns: on a table without them it   *)
(* raises, and the except branch returns the empty table.                  *)
(***************************************************************************)
load_sales_data ==
    IF ~hasPromoCols THEN DataFrame(SalesColumns, <<>>)
    ELSE IF sales = {} THEN DataFrame(SalesColumns, <<>>)
    ELSE DataFrame(SalesColumns, sort_values(SetToSeq(sales), "date_item"))

(***************************************************************************)
(* generate_forecasts, lines 76-97: promotion / holiday rows staged under  *)
(* the forecast dates; the same SELECT failure degrades to no rows.        *)
(***************************************************************************)
promo_holiday(forecast_dates) ==
    IF ~hasPromoCols THEN {}
    ELSE {r \in sales : r.date \in Range(forecast_dates)}

(***************************************************************************)
(* generate_forecasts, lines 103-119: the lag and rolling features of one  *)
(* item at inference time, from the rows of sales_df of that item.         *)
(***************************************************************************)
item_sales_of(sdf, item_id) ==
    sort_values(SelectSeq(sdf.rows, LAMBDA r : r.item_id = item_id), "date")

Quantities(rows) == [i \in DOMAIN rows |-> rows[i].quantity]

\* mutant: lag_7 reads one row too far back
inference_lags_lag8(item_sales) ==
    LET q == Quantities(item_sales) IN
    IF item_sales # <<>> THEN
        [lag_1 |-> IF Len(q) >= 1 THEN q[Len(q)] ELSE 0,
         lag_7 |-> IF Len(q) >= 8 THEN q[Len(q) - 7] ELSE 0,
         rolling_7 |-> IF Len(q) >= 1 THEN Mean(TailN(q, 7)) ELSE Zero,
         rolling_28 |-> IF Len(q) >= 1 THEN Mean(TailN(q, 28)) ELSE Zero]
    ELSE [lag_1 |-> 0, lag_7 |-> 0, rolling_7 |-> Zero, rolling_28 |-> Zero]

inference_lags(item_sales) ==
    LET q == Quantities(item_sales) IN
    IF item_sales # <<>> THEN
        [lag_1 |-> IF Len(q) >= 1 THEN q[Len(q)] ELSE 0,
         lag_7 |-> IF Len(q) >= 7 THEN q[Len(q) - 6] ELSE 0,
         rolling_7 |-> IF Len(q) >= 1 THEN Mean(TailN(q, 7)) ELSE Zero,
         rolling_28 |-> IF Len(q) >= 1 THEN Mean(TailN(q, 28)) ELSE Zero]
    ELSE [lag_1 |-> 0, lag_7 |-> 0, rolling_7 |-> Zero, rolling_28 |-> Zero]

\* lines 121-154: the feature vector x_features of one (date, item_id)
x_features(sdf, promo_df, date, item_id) ==
    LET lags == inference_lags(item_sales_of(sdf, item_id))
        date_obj == strptime(date)
        promo_row == {r \in promo_df : r.date = date /\ r.item_id = item_id}
        p == CHOOSE r \in promo_row : TRUE
    IN  [lag_1 |-> lags.lag_1,
         lag_7 |-> lags.lag_7,
         rolling_7 |-> lags.rolling_7,
         rolling_28 |-> lags.rolling_28,
         day_of_week |-> dayofweek(date_obj),
         month |-> MonthOf(date_obj),
         promotion_discount |-> IF promo_row # {} THEN p.promotion_discount ELSE 0,
         is_holiday |-> IF promo_row # {} THEN p.is_holiday ELSE 0,
         item_id |-> item_id]

(***************************************************************************)
(* The fitted regressor is opaque: a function from a feature vector to a   *)
(* value or an exception.  Predictors is the family the model draws it     *)
(* from; model.predict(x)[0] is [ok |-> FALSE] when it raises.             *)
(***************************************************************************)
Predictors == {"negative", "lag_1", "raise_item"}

Returned(v) == [ok |-> TRUE, val |-> v]

Raised == [ok |-> FALSE, val |-> 0]

model_predict(model, x) ==
    CASE model.predictor = "negative" -> Returned(0 - 1)
      [] model.predictor = "lag_1" -> Returned(x.lag_1)
      [] model.predictor = "raise_item" ->
            IF x.item_id = 1 THEN Raised ELSE Returned(2)

Max(a, b) == IF a >= b THEN a ELSE b

\* mutant: no clamp
predicted_quantity_unclamped(outcome) ==
    IF outcome.ok THEN outcome.val ELSE 0

\* lines 156-163: predict, clamp at 0; 0 when the prediction raises
predicted_quantity_of(outcome) ==
    IF outcome.ok THEN Max(0, outcome.val) ELSE 0

\* mutant: the forecasts made so far in the run extend the item's history
forecast_step_chained(model, sdf, promo_df, date, item_id, fcs) ==
    LET chained == DataFrame(sdf.columns,
                       sdf.rows \o [i \in DOMAIN fcs |->
                           [date |-> fcs[i].date, item_id |-> fcs[i].item_id,
                            quantity |-> fcs[i].predicted_quantity,
                            promotion_discount |-> 0, is_holiday |-> 0]])
        x == x_features(chained, promo_df, date, item_id)
        outcome == model_predict(model, x)
    IN  Append(fcs, [date |-> date, item_id |-> item_id,
                     predicted_quantity |-> predicted_quantity_of(outcome),
                     x |-> x, outcome |-> outcome])

\* lines 99-167, one pass of the loop body: the row appended to forecasts
\* (x and outcome are kept beside the row for the record of the call)
forecast_step(model, sdf, promo_df, date, item_id, fcs) ==
    LET x == x_features(sdf, promo_df, date, item_id)
        outcome == model_predict(model, x)
    IN  Append(fcs, [date |-> date, item_id |-> item_id,
                     predicted_quantity |-> predicted_quantity_of(outcome),
                     x |-> x, outcome |-> outcome])

\* the inner loop: for _, item_row in items_df.iterrows()
RECURSIVE items_loop(_, _, _, _, _, _)
items_loop(model, sdf, promo_df, date, item_rows, fcs) ==
    IF item_rows = <<>> THEN fcs
    ELSE items_loop(model, sdf, promo_df, date, Tail(item_rows),
                    forecast_step(model, sdf, promo_df, date, Head(item_rows), fcs))

\* the outer loop: for date in forecast_dates
RECURSIVE dates_loop(_, _, _, _, _, _)
dates_loop(model, sdf, promo_df, dates, item_rows, fcs) ==
    IF dates = <<>> THEN fcs
    ELSE dates_loop(model, sdf, promo_df, Tail(dates), item_rows,
                    items_loop(model, sdf, promo_df, Head(dates), item_rows, fcs))

\* SELECT id as item_id FROM items (rowid order)
RECURSIVE items_df(_)
items_df(S) ==
    IF S = {} THEN <<>>
    ELSE LET m == CHOOSE i \in S : \A j \in S : i <= j
         IN  <<m>> \o items_df(S \ {m})

ForecastRow(f) ==
    [date |-> f.date, item_id |-> f.item_id,
     predicted_quantity |-> f.predicted_quantity]

\* mutant: a pair whose prediction failed is left out of the batch
forecast_frame_without_failures(fcs) ==
    LET kept == SelectSeq(fcs, LAMBDA f : f.outcome.ok) IN
    IF kept = <<>> THEN DataFrame(<<>>, <<>>)
    ELSE DataFrame(ForecastColumns, [i \in DOMAIN kept |-> ForecastRow(kept[i])])

\* pd.DataFrame(forecasts): no columns at all when the list is empty
forecast_frame(fcs) ==
    IF fcs = <<>> THEN DataFrame(<<>>, <<>>)
    ELSE DataFrame(ForecastColumns, [i \in DOMAIN fcs |-> ForecastRow(fcs[i])])

\* mutant: the replaced key is (date, item_id), whatever the run
insert_or_replace_forecast_by_date_item(rel, row, run_id) ==
    {f \in rel : ~(f.date = row.date /\ f.item_id = row.item_id)}
        \cup {[date |-> row.date, item_id |-> row.item_id,
               predicted_quantity |-> row.predicted_quantity, run_id |-> run_id]}

\* INSERT OR REPLACE INTO forecasts (date, item_id, predicted_quantity, run_id)
insert_or_replace_forecast(rel, row, run_id) ==
    {f \in rel : ~(f.date = row.date /\ f.item_id = row.item_id /\ f.run_id = run_id)}
        \cup {[date |-> row.date, item_id |-> row.item_id,
               predicted_quantity |-> row.predicted_quantity, run_id |-> run_id]}

\* mutant: a batch supersedes the earlier runs' rows for its dates and items
write_forecasts_superseding(rel, rows, run_id) ==
    {f \in rel : ~\E i \in DOMAIN rows :
                    rows[i].date = f.date /\ rows[i].item_id = f.item_id}
        \cup {[date |-> rows[i].date, item_id |-> rows[i].item_id,
                predicted_quantity |-> rows[i].predicted_quantity,
                run_id |-> run_id] : i \in DOMAIN rows}

\* lines 180-186: for _, row in forecast_df.iterrows(): cursor.execute(...)
RECURSIVE write_forecasts(_, _, _)
write_forecasts(rel, rows, run_id) ==
    IF rows = <<>> THEN rel
    ELSE write_forecasts(insert_or_replace_forecast(rel, Head(rows), run_id),
                         Tail(rows), run_id)

\* the run_id of a call that reaches no uuid4() (line 172 not taken)
NoRun == 0

\* mutant: one token for every call
uuid4_constant == NoRun + 1

\* uuid.uuid4(): a token no earlier call returned
uuid4 == uuids + 1

(***************************************************************************)
(* features.build_features(sales_df, config).  A row of a table is a       *)
(* function from the table's column names to values.                       *)
(***************************************************************************)
\* mutant: the empty table lacks the two exogenous columns
FeatureColumns_short ==
    <<"date", "item_id", "lag_1", "lag_7", "rolling_7", "rolling_28",
      "day_of_week", "month", "quantity">>

\* lines 26-40: the columns of the table returned for an empty input
FeatureColumns ==
    <<"date", "item_id", "lag_1", "lag_7", "rolling_7", "rolling_28",
      "day_of_week", "month", "promotion_discount", "is_holiday", "quantity">>

\* df[cols]: the rows restricted to the columns
select_columns(df, cols) ==
    DataFrame(cols, [i \in DOMAIN df.rows |-> [c \in Range(cols) |-> df.rows[i][c]]])

\* df[name] = values: the column is replaced, or appended when new
assign(df, name, values) ==
    DataFrame(IF name \in Range(df.columns) THEN df.columns ELSE Append(df.columns, name),
              [i \in DOMAIN df.rows |->
                  [c \in Range(df.columns) \cup {name} |->
                      IF c = name THEN values[i] ELSE df.rows[i][c]]])

\* the quantities of the rows of rows[i]'s item, from the first row to rows[i]
group_prefix(rows, i) ==
    Quantities(SelectSeq(SubSeq(rows, 1, i), LAMBDA r : r.item_id = rows[i].item_id))

\* mutant: shift(k) on the whole frame, not per item
shift_ungrouped(rows, i, k) ==
    IF i > k THEN rows[i - k].quantity ELSE 0

\* groupby("item_id")["quantity"].shift(k).fillna(0), at row i
groupby_shift(rows, i, k) ==
    LET g == group_prefix(rows, i)
    IN  IF Len(g) > k THEN g[Len(g) - k] ELSE 0

\* mutant: rolling(window) with its default min_periods = window; the
\* missing means of the first rows are filled with 0
rolling_mean_full_window(rows, i, window) ==
    IF Len(group_prefix(rows, i)) < window THEN Zero
    ELSE Mean(TailN(group_prefix(rows, i), window))

\* groupby("item_id")["quantity"].transform(rolling(window, min_periods=1).mean()), at row i
groupby_rolling_mean(rows, i, window) == Mean(TailN(group_prefix(rows, i), window))

build_features(df) ==
    IF empty(df) THEN DataFrame(FeatureColumns, <<>>)                   \* lines 24-40
    ELSE
    LET sorted == DataFrame(df.columns, sort_values(df.rows, "item_date"))   \* 43-47
        base_cols == <<"date", "item_id", "quantity">>
                       \o (IF "promotion_discount" \in Range(df.columns)
                           THEN <<"promotion_discount">> ELSE <<>>)
                       \o (IF "is_holiday" \in Range(df.columns)
                           THEN <<"is_holiday">> ELSE <<>>)                   \* 50-54
        f0 == select_columns(sorted, base_cols)                               \* 56
        R == DOMAIN f0.rows
        f1 == assign(f0, "promotion_discount",
                     IF "promotion_discount" \notin Range(f0.columns)
                     THEN [i \in R |-> 0]
                     ELSE [i \in R |-> f0.rows[i].promotion_discount])        \* 59-64
        f2 == assign(f1, "is_holiday",
                     IF "is_holiday" \notin Range(f1.columns)
                     THEN [i \in R |-> 0]
                     ELSE [i \in R |-> f1.rows[i].is_holiday])                \* 66-69
        f3 == assign(f2, "day_of_week",
                     [i \in R |-> dayofweek(strptime(f2.rows[i].date))])      \* 72
        f4 == assign(f3, "month", [i \in R |-> MonthOf(strptime(f3.rows[i].date))])
        f5 == assign(f4, "lag_1", [i \in R |-> groupby_shift(f4.rows, i, 1)])  \* 76
        f6 == assign(f5, "lag_7", [i \in R |-> groupby_shift(f5.rows, i, 7)])  \* 77
        f7 == assign(f6, "rolling_7",
                     [i \in R |-> groupby_rolling_mean(f6.rows, i, 7)])       \* 80-84
        f8 == assign(f7, "rolling_28",
                     [i \in R |-> groupby_rolling_mean(f7.rows, i, 28)])      \* 85-89
    IN  assign(f8, "date", [i \in R |-> strftime(strptime(f8.rows[i].date))])  \* 92

(***************************************************************************)
(* The model artifact at <model_dir>/latest.model.                         *)
(***************************************************************************)
NoArtifact == [state |-> "missing", family |-> "-", predictor |-> "-"]

\* a file joblib.load cannot load
CorruptArtifact == [state |-> "corrupt", family |-> "-", predictor |-> "-"]

Fitted(family, predictor) ==
    [state |-> "ok", family |-> family, predictor |-> predictor]

NoTable == DataFrame(<<>>, <<>>)

(***************************************************************************)
(* predict.generate_forecasts(config), config["forecast"]["horizon"] = h.  *)
(***************************************************************************)
RunIds(rel) == {f.run_id : f \in rel}

\* mutant: the empty items relation is not checked for
degrades_unless_no_items(model, item_ids) ==
    model.state = "missing" \/ model.state = "corrupt"

\* the early returns: no artifact (lines 27-29), an artifact that does not
\* load (lines 31-36), no items (lines 47-49)
degrades(model, item_ids) ==
    \/ model.state = "missing"
    \/ model.state = "corrupt"
    \/ item_ids = {}

\* the required fields of the configuration
ConfigFields == {"database.path", "paths.model_dir", "forecast.horizon", "model.type"}

\* the KeyError of a missing field: config["paths"]["model_dir"] (line 25);
\* past the model checks, config["forecast"]["horizon"] (line 39) and
\* config["database"]["path"] (line 44, get_connection outside the try)
generate_raises(model, missing) ==
    \/ "paths.model_dir" \in missing
    \/ /\ model.state = "ok"
       /\ ("forecast.horizon" \in missing \/ "database.path" \in missing)

\* the path the call takes
generate_branch(model, item_ids, missing) ==
    IF "paths.model_dir" \in missing THEN "raised"
    ELSE IF model.state = "missing" THEN "model_not_found"       \* lines 27-29
    ELSE IF model.state = "corrupt" THEN "load_error"            \* lines 34-36
    ELSE IF generate_raises(model, missing) THEN "raised"
    ELSE IF item_ids = {} THEN "no_items"                        \* lines 47-49
    ELSE "forecast"

\* connections acquired by the call and not closed when it ends: the return
\* of lines 47-49 leaves the try without conn.close(); lines 52, 54, 97,
\* 189 and load_sales_data (lines 233, 248) close theirs
generate_open_connections(branch) == IF branch = "no_items" THEN 1 ELSE 0

GenerateForecasts ==
    LET horizon == config.horizon
        forecast_dates == get_date_range(get_today, horizon)
        sdf == load_sales_data
        promo_df == promo_holiday(forecast_dates)
        fcs == dates_loop(artifact, sdf, promo_df, forecast_dates, items_df(items), <<>>)
        forecast_df == forecast_frame(fcs)
        run_id == uuid4
        raised == generate_raises(artifact, config.missing)
        branch == generate_branch(artifact, items, config.missing)
        degraded == ~raised /\ degrades(artifact, items)
        result == IF raised THEN NoTable
                  ELSE IF degraded THEN DataFrame(ForecastColumns, <<>>) ELSE forecast_df
        writes == ~raised /\ ~degraded /\ ~empty(forecast_df)    \* line 172
        after == IF writes THEN write_forecasts(forecasts, forecast_df.rows, run_id)
                 ELSE forecasts
    IN  /\ writes => Len(invocations) < MaxRuns
        /\ forecasts' = after
        /\ uuids' = IF writes THEN uuids + 1 ELSE uuids
        /\ last' = [op |-> "generate_forecasts", today |-> today,
                    raised |-> raised, branch |-> branch,
                    open_connections |-> generate_open_connections(branch),
                    degraded |-> degraded, result |-> result,
                    run_id |-> IF writes THEN run_id ELSE NoRun,
                    uuids_before |-> uuids,
                    inserted |-> after \ forecasts,
                    removed |-> forecasts \ after,
                    steps |-> IF degraded \/ raised THEN <<>> ELSE fcs]
        /\ invocations' = IF writes
                          THEN Append(invocations,
                                      [run_id |-> run_id, result |-> result, steps |-> fcs])
                          ELSE invocations
        /\ UNCHANGED <<hasPromoCols, items, sales, model_runs, artifact, config, env,
                       today, sales_df, feature_df>>

(***************************************************************************)
(* train._get_model(config): the regressor class selected, or ImportError. *)
(* avail = the flags CATBOOST_AVAILABLE, LIGHTGBM_AVAILABLE,               *)
(* SKLEARN_AVAILABLE set when the module is imported (env).                *)
(***************************************************************************)
ModelTypes == {"catboost", "CatBoost", "lightgbm", "xgboost"}

Availabilities == [catboost : BOOLEAN, lightgbm : BOOLEAN, sklearn : BOOLEAN]

\* str.lower
lower(t) == IF t = "CatBoost" THEN "catboost" ELSE t

get_model(config_type, avail) ==
    LET model_type == lower(config_type) IN
    IF model_type = "catboost" /\ avail.catboost THEN "CatBoostRegressor"
    ELSE IF model_type = "lightgbm" /\ avail.lightgbm THEN "LGBMRegressor"
    ELSE IF avail.sklearn THEN "RandomForestRegressor"
    ELSE "ImportError"

(***************************************************************************)
(* train.train_model(features_df, config).  shape is what the feature      *)
(* table looks like ("empty", "no_quantity", "normal"); the fit is opaque  *)
(* and yields one of Predictors; audit_fails is a store error while the    *)
(* model_runs row is written.                                              *)
(***************************************************************************)
FeatureShapes == {"empty", "no_quantity", "normal"}

\* mutant: an empty feature table leaves the artifact as it was
artifact_after_skip_empty(shape, fitted, current) ==
    IF shape = "empty" THEN current ELSE fitted

\* lines 58-93: every branch fits a model (on a synthetic zero sample when
\* the table is empty or has no quantity column) and joblib.dump overwrites
\* latest.model with it
artifact_after(shape, fitted, current) == fitted

\* mutant: a failed audit write fails the call
train_raises_on_audit(stops_before_dump, audit_error) ==
    stops_before_dump \/ audit_error

\* the call raises when it stops before the dump; an error in the audit
\* step is caught (lines 104-118)
train_raises(stops_before_dump, audit_error) == stops_before_dump

TrainModel(shape, predictor, audit_fails) ==
    LET type_missing == "model.type" \in config.missing          \* KeyError, line 36
        model == get_model(config.model_type, env)
        no_model == model = "ImportError"                        \* line 46
        dir_missing == "paths.model_dir" \in config.missing      \* KeyError, line 89
        stops_before_dump == type_missing \/ no_model \/ dir_missing
        \* line 105: get_connection raises KeyError inside the try
        path_missing == "database.path" \in config.missing
        audit_error == ~stops_before_dump /\ (audit_fails \/ path_missing)
        raised == train_raises(stops_before_dump, audit_error)
        fitted == Fitted(model, predictor)
        metrics == [mae |-> 0, wape |-> 0, model_type |-> config.model_type]
        run_id == uuid4
        logged == ~stops_before_dump /\ ~audit_error
    IN  /\ logged => Cardinality(model_runs) < MaxTrain
        /\ artifact' = IF stops_before_dump THEN artifact
                       ELSE artifact_after(shape, fitted, artifact)
        /\ model_runs' = IF logged
                         THEN model_runs \cup {[run_id |-> run_id, metrics |-> metrics,
                                                model_type |-> config.model_type]}
                         ELSE model_runs
        /\ uuids' = IF logged THEN uuids + 1 ELSE uuids
        /\ last' = [op |-> "train_model", raised |-> raised,
                    model |-> IF type_missing THEN "KeyError" ELSE model,
                    metrics |-> IF raised THEN [model_type |-> "-"] ELSE metrics,
                    shape |-> shape, fitted |-> fitted,
                    audit_error |-> audit_error,
                    \* the except branch of lines 117-118 does not close conn
                    open_connections |-> IF audit_error /\ ~path_missing THEN 1 ELSE 0]
        /\ UNCHANGED <<hasPromoCols, items, sales, forecasts, config, env, today,
                       sales_df, feature_df, invocations>>

(***************************************************************************)
(* The clock: datetime.now() moves to the next day.                        *)
(***************************************************************************)
AdvanceDay ==
    /\ today < Today0 + MaxAdvance
    /\ today' = today + 1
    /\ last' = [op |-> "advance_day"]
    /\ UNCHANGED <<hasPromoCols, items, sales, forecasts, model_runs, artifact,
                   config, env, uuids, sales_df, feature_df, invocations>>

(***************************************************************************)
(* load_sales.preprocess_hipos_file(hipos_file_path, date, config).        *)
(* A file is a sequence of rows [referencia, venta]: the item reference    *)
(* (numeric) and the parsed Venta column (sales are negative in HIPOS).    *)
(* An item is found by its reference or created with the reference as id.  *)
(***************************************************************************)
HiposRows == [referencia : ItemIds, venta : (0 - MaxQty)..0]

HiposFiles == UNION {[1..n -> HiposRows] : n \in 1..MaxFileRows}

\* line 137: quantity = abs(venta_quantity) if venta_quantity < 0 else 0.0
hipos_quantity(venta) == IF venta < 0 THEN 0 - venta ELSE 0

\* lines 120-189: the sales_records of the rows that carry a sale
sales_records(file, date) ==
    LET kept == SelectSeq(file, LAMBDA row : hipos_quantity(row.venta) # 0)
    IN  [i \in DOMAIN kept |->
            [date |-> date, item_id |-> kept[i].referencia,
             quantity |-> hipos_quantity(kept[i].venta),
             promotion_discount |-> 0, is_holiday |-> 0]]

\* lines 191-198: one record per (date, item_id), quantities summed
RECURSIVE aggregate(_, _)
aggregate(records, sales_dict) ==
    IF records = <<>> THEN sales_dict
    ELSE LET r == Head(records)
             same == {a \in sales_dict : a.date = r.date /\ a.item_id = r.item_id}
             old == CHOOSE a \in same : TRUE
         IN  aggregate(Tail(records),
                IF same # {}
                THEN (sales_dict \ same) \cup {[r EXCEPT !.quantity = old.quantity + @]}
                ELSE sales_dict \cup {r})

\* INSERT OR REPLACE INTO daily_item_sales: replace on (date, item_id)
insert_or_replace_sales(rel, records) ==
    {s \in rel : ~\E r \in records : r.date = s.date /\ r.item_id = s.item_id}
        \cup records

PreprocessHiposFile(file, day) ==
    LET date == strftime(day)
        records == sales_records(file, date)
        aggregated_records == aggregate(records, {})
        \* the INSERT names promotion_discount and is_holiday: without the
        \* columns it raises before the commit, and nothing is kept
        raised == ~hasPromoCols
        after == insert_or_replace_sales(sales, aggregated_records)
    IN  /\ ~raised => Cardinality(after) <= MaxIngest
        /\ items' = IF raised THEN items
                    ELSE items \cup {r.item_id : r \in Range(records)}
        /\ sales' = IF raised THEN sales ELSE after
        /\ last' = [op |-> "preprocess_hipos_file", raised |-> raised,
                    aggregated_records |-> aggregated_records]
        /\ UNCHANGED <<hasPromoCols, forecasts, model_runs, artifact, config, env,
                       today, uuids, sales_df, feature_df, invocations>>

(***************************************************************************)
(* Store states.  A sales row as ingestion writes it.                      *)
(***************************************************************************)
SalesRow(day, item_id, quantity) ==
    [date |-> strftime(day), item_id |-> item_id, quantity |-> quantity,
     promotion_discount |-> 0, is_holiday |-> 0]

KeyUnique(rel) ==
    \A a, b \in rel : (a.date = b.date /\ a.item_id = b.item_id) => a = b

\* a short recent history: any rows of the two days before Today0, item i
\* selling i units a day
RecentRows ==
    {SalesRow(day, i, i) : day \in (Today0 - 2)..(Today0 - 1), i \in ItemIds}

\* the history of one item: n sales, one every second day, the latest the
\* day before Today0; item i sells i units, but i + 3 units on the p-th sale
\* (p = 0: on none)
HistoryRow(item_id, n, p, k) ==
    SalesRow(Today0 - 2 * (n - k) - 1, item_id, IF k = p THEN item_id + 3 ELSE item_id)

History(item_id, n, p) == {HistoryRow(item_id, n, p, k) : k \in 1..n}

Artifacts ==
    {NoArtifact, CorruptArtifact} \cup {Fitted("CatBoostRegressor", p) : p \in Predictors}

AllAvailable == [catboost |-> TRUE, lightgbm |-> TRUE, sklearn |-> TRUE]

(***************************************************************************)
(* The forecast generator on a store: any short history, any artifact,     *)
(* any horizon.  daily_item_sales has the two exogenous columns or not, as *)
(* CREATE TABLE IF NOT EXISTS leaves an existing table alone; without them *)
(* no row can have been ingested.  Items may be pre-seeded.                *)
(***************************************************************************)
Init ==
    /\ hasPromoCols \in BOOLEAN
    /\ sales \in {rel \in SUBSET RecentRows : KeyUnique(rel)}
    /\ ~hasPromoCols => sales = {}
    /\ items \in {S \in SUBSET ItemIds : \A r \in sales : r.item_id \in S}
    /\ forecasts = {}
    /\ model_runs = {}
    /\ artifact \in Artifacts
    /\ config \in [model_type : {"catboost"}, horizon : 0..MaxHorizon, missing : {{}}]
    /\ env = AllAvailable
    /\ today = Today0
    /\ uuids = 0
    /\ sales_df = NoTable
    /\ feature_df = NoTable
    /\ last = [op |-> "init"]
    /\ invocations = <<>>

Next == GenerateForecasts \/ AdvanceDay

Spec == Init /\ [][Next]_vars

(***************************************************************************)
(* The forecast generator on a store with a long history of item 1 (every  *)
(* length up to MaxHist, the spike on every day), item 2 registered with   *)
(* one sale or not registered, a fitted artifact, the longest horizon.     *)
(***************************************************************************)
InitHistory ==
    /\ hasPromoCols = TRUE
    /\ \E n \in 0..MaxHist, p \in 0..MaxHist, other \in BOOLEAN :
          /\ p <= n
          /\ items = IF other THEN {1, 2} ELSE {1}
          /\ sales = History(1, n, p) \cup (IF other THEN History(2, 1, 0) ELSE {})
    /\ forecasts = {}
    /\ model_runs = {}
    /\ artifact \in {Fitted("CatBoostRegressor", p) : p \in {"lag_1", "negative"}}
    /\ config = [model_type |-> "catboost", horizon |-> MaxHorizon, missing |-> {}]
    /\ env = AllAvailable
    /\ today = Today0
    /\ uuids = 0
    /\ sales_df = NoTable
    /\ feature_df = NoTable
    /\ last = [op |-> "init"]
    /\ invocations = <<>>

NextHistory == GenerateForecasts

SpecHistory == InitHistory /\ [][NextHistory]_vars

(***************************************************************************)
(* Training and forecasting under every configured family and every set of *)
(* importable libraries, on a new store or one with one item and one sale. *)
(***************************************************************************)
InitTrain ==
    /\ hasPromoCols = TRUE
    /\ \E seeded \in BOOLEAN :
          /\ items = IF seeded THEN {1} ELSE {}
          /\ sales = IF seeded THEN History(1, 1, 0) ELSE {}
    /\ forecasts = {}
    /\ model_runs = {}
    /\ artifact \in {NoArtifact, CorruptArtifact}
    /\ config \in [model_type : ModelTypes, horizon : {1}, missing : {{}}]
    /\ env \in Availabilities
    /\ today = Today0
    /\ uuids = 0
    /\ sales_df = NoTable
    /\ feature_df = NoTable
    /\ last = [op |-> "init"]
    /\ invocations = <<>>

Train ==
    \E shape \in FeatureShapes, predictor \in Predictors, audit_fails \in BOOLEAN :
        TrainModel(shape, predictor, audit_fails)

NextTrain == Train \/ GenerateForecasts

SpecTrain == InitTrain /\ [][NextTrain]_vars

(***************************************************************************)
(* Ingestion into a new store.                                             *)
(***************************************************************************)
InitStore ==
    /\ hasPromoCols \in BOOLEAN
    /\ items = {}
    /\ sales = {}
    /\ forecasts = {}
    /\ model_runs = {}
    /\ artifact = NoArtifact
    /\ config = [model_type |-> "catboost", horizon |-> 1, missing |-> {}]
    /\ env = AllAvailable
    /\ today = Today0
    /\ uuids = 0
    /\ sales_df = NoTable
    /\ feature_df = NoTable
    /\ last = [op |-> "init"]
    /\ invocations = <<>>

\* the date argument: today (the default) or the day after
Ingest ==
    \E file \in HiposFiles, day \in today..(today + 1) :
        PreprocessHiposFile(file, day)

NextStore == Ingest \/ AdvanceDay

SpecStore == InitStore /\ [][NextStore]_vars

(***************************************************************************)
(* Ingestion and forecasting on a store whose table has the exogenous      *)
(* columns: files are loaded under today's date or staged under the next   *)
(* day, a forecast date of the longest horizon.                            *)
(***************************************************************************)
InitStaged ==
    /\ hasPromoCols = TRUE
    /\ \E seeded \in BOOLEAN :
          /\ items = IF seeded THEN {1} ELSE {}
          /\ sales = IF seeded THEN History(1, 1, 0) ELSE {}
    /\ forecasts = {}
    /\ model_runs = {}
    /\ artifact = Fitted("CatBoostRegressor", "lag_1")
    /\ config = [model_type |-> "catboost", horizon |-> MaxHorizon, missing |-> {}]
    /\ env = AllAvailable
    /\ today = Today0
    /\ uuids = 0
    /\ sales_df = NoTable
    /\ feature_df = NoTable
    /\ last = [op |-> "init"]
    /\ invocations = <<>>

NextStaged == Ingest \/ GenerateForecasts

SpecStaged == InitStaged /\ [][NextStaged]_vars

(***************************************************************************)
(* Training and forecasting under a configuration that lacks any set of    *)
(* its required fields, with any set of importable libraries.              *)
(***************************************************************************)
InitConfig ==
    /\ hasPromoCols = TRUE
    /\ items = {1}
    /\ sales = History(1, 1, 0)
    /\ forecasts = {}
    /\ model_runs = {}
    /\ artifact \in {NoArtifact, Fitted("CatBoostRegressor", "lag_1")}
    /\ config \in [model_type : {"catboost"}, horizon : {1}, missing : SUBSET ConfigFields]
    /\ env \in Availabilities
    /\ today = Today0
    /\ uuids = 0
    /\ sales_df = NoTable
    /\ feature_df = NoTable
    /\ last = [op |-> "init"]
    /\ invocations = <<>>

NextConfig == Train \/ GenerateForecasts

SpecConfig == InitConfig /\ [][NextConfig]_vars

(***************************************************************************)
(* The feature builder on a sales table: item 1 with every history up to   *)
(* MaxHist sales, item 2 with two sales on the same days or absent; rows   *)
(* ordered as load_sales_data returns them, grouped by item, or latest     *)
(* first; with or without the promotion_discount and is_holiday columns.   *)
(***************************************************************************)
Reverse(s) == [i \in DOMAIN s |-> s[Len(s) + 1 - i]]

RowOrders == {"date_item", "item_date", "latest_first"}

ordered(rel, order) ==
    IF order = "latest_first" THEN Reverse(sort_values(SetToSeq(rel), "date_item"))
    ELSE sort_values(SetToSeq(rel), order)

ColumnChoices ==
    {SalesColumns,
     <<"date", "item_id", "quantity", "promotion_discount">>,
     <<"date", "item_id", "quantity", "is_holiday">>,
     <<"date", "item_id", "quantity">>}

SalesTable(n, p, other, order, cols) ==
    select_columns(
        DataFrame(SalesColumns,
                  ordered(History(1, n, p) \cup (IF other THEN History(2, 2, 0) ELSE {}),
                          order)),
        cols)

\* item 1 sells 5 units, then 7 the day after
ExampleTable ==
    DataFrame(SalesColumns,
              <<SalesRow(Today0 - 2, 1, 5), SalesRow(Today0 - 1, 1, 7)>>)

InitFeatures ==
    /\ \/ \E n \in 0..MaxHist, p \in 0..MaxHist, other \in BOOLEAN,
             order \in RowOrders, cols \in ColumnChoices :
             /\ p <= n
             /\ (order = "item_date" \/ cols # SalesColumns) => n <= MaxShort
             /\ sales_df = SalesTable(n, p, other, order, cols)
       \/ sales_df = ExampleTable
    /\ feature_df = NoTable
    /\ last = [op |-> "init"]
    /\ hasPromoCols = TRUE
    /\ items = {}
    /\ sales = {}
    /\ forecasts = {}
    /\ model_runs = {}
    /\ artifact = NoArtifact
    /\ config = [model_type |-> "catboost", horizon |-> 1, missing |-> {}]
    /\ env = AllAvailable
    /\ today = Today0
    /\ uuids = 0
    /\ invocations = <<>>

BuildFeatures ==
    /\ feature_df' = build_features(sales_df)
    /\ last' = [op |-> "build_features"]
    /\ UNCHANGED <<hasPromoCols, items, sales, forecasts, model_runs, artifact,
                   config, env, today, uuids, sales_df, invocations>>

NextFeatures == BuildFeatures

SpecFeatures == InitFeatures /\ [][NextFeatures]_vars

(***************************************************************************)
(*                              Claims                                     *)
(***************************************************************************)
IsGenerate == last.op = "generate_forecasts"

Keys(rows) == {<<r.date, r.item_id>> : r \in rows}

RowsOfRun(run_id) == {f \in forecasts : f.run_id = run_id}

\* the horizon-length run of calendar dates starting at the day of the call
HorizonDates == {strftime(last.today + k) : k \in 0..(config.horizon - 1)}

\* C1: with a loadable artifact and a non-empty items relation, one call of
\* generate_forecasts returns and persists exactly one forecast for every
\* (date, item) with the date among the horizon's contiguous dates from today
\* (ascending) and the item registered: H x |items| rows, none missing, none
\* twice, whether or not the item has any sales.
C1_OneForecastPerDateItem ==
    (IsGenerate /\ artifact.state = "ok" /\ items # {}) =>
        LET rows == last.result.rows
            written == RowsOfRun(last.run_id)
        IN  /\ Len(rows) = config.horizon * Cardinality(items)
            /\ Keys(Range(rows)) = HorizonDates \X items
            /\ \A j, k \in DOMAIN rows :
                  j < k => strptime(rows[j].date) <= strptime(rows[k].date)
            /\ Cardinality(written) = config.horizon * Cardinality(items)
            /\ Keys(written) = HorizonDates \X items
            /\ config.horizon > 0 => last.run_id # NoRun

C1_Witness ==
    /\ IsGenerate /\ artifact.state = "ok"
    /\ items = {1, 2} /\ config.horizon = MaxHorizon
    /\ Len(last.result.rows) = 2 * MaxHorizon
    /\ \E i \in items : \A r \in sales : r.item_id # i
    /\ \E i \in items : \E r \in sales : r.item_id = i
    /\ Cardinality(RowsOfRun(last.run_id)) = 2 * MaxHorizon

\* C2: every run_id in the forecasts relation groups exactly the (date,
\* item_id) rows of one single call: the rows of a call share one run_id, no
\* two calls share a run_id, and a call with an empty result generates no
\* run_id and writes nothing.
C2_RunIdGroupsOneInvocation ==
    /\ \A r \in RunIds(forecasts) :
          /\ Cardinality({k \in DOMAIN invocations : invocations[k].run_id = r}) = 1
          /\ \A k \in DOMAIN invocations :
                invocations[k].run_id = r =>
                    Keys(RowsOfRun(r)) = Keys(Range(invocations[k].result.rows))
    /\ \A k \in DOMAIN invocations :
          /\ invocations[k].run_id \in RunIds(forecasts)
          /\ \A j \in DOMAIN invocations : j < k => invocations[j].run_id # invocations[k].run_id
    /\ (IsGenerate /\ empty(last.result)) =>
          /\ last.run_id = NoRun
          /\ uuids = last.uuids_before
          /\ last.inserted = {} /\ last.removed = {}
    /\ (IsGenerate /\ ~empty(last.result)) =>
          /\ last.run_id \notin {NoRun} \cup {invocations[k].run_id : k \in 1..(Len(invocations) - 1)}
          /\ {f.run_id : f \in last.inserted} = {last.run_id}

C2_Witness ==
    /\ Len(invocations) = 2
    /\ Cardinality(RunIds(forecasts)) = 2
    /\ \E f, g \in forecasts :
          f.run_id # g.run_id /\ f.date = g.date /\ f.item_id = g.item_id
    /\ \E f, g \in forecasts : f.run_id # g.run_id /\ f.date # g.date

\* C3: every row of the forecasts relation has predicted_quantity >= 0,
\* whatever the model returned.
C3_ForecastsNonNegative ==
    \A f \in forecasts : f.predicted_quantity >= 0

C3_Witness ==
    /\ IsGenerate
    /\ \E k \in DOMAIN last.steps :
          /\ last.steps[k].outcome.ok /\ last.steps[k].outcome.val < 0
          /\ \E f \in RowsOfRun(last.run_id) :
                /\ f.date = last.steps[k].date /\ f.item_id = last.steps[k].item_id
                /\ f.predicted_quantity = 0

\* C4: with no artifact, an artifact that does not load, or no items,
\* generate_forecasts returns the empty forecast table and leaves the
\* forecasts relation as it was.
C4_DegradesToEmpty ==
    (IsGenerate /\ (artifact.state = "missing" \/ artifact.state = "corrupt" \/ items = {})) =>
        /\ last.result = DataFrame(<<"date", "item_id", "predicted_quantity">>, <<>>)
        /\ last.run_id = NoRun
        /\ last.inserted = {} /\ last.removed = {}

C4_Witness ==
    /\ IsGenerate
    /\ artifact.state = "ok" /\ items = {} /\ config.horizon > 0
    /\ last.result = DataFrame(<<"date", "item_id", "predicted_quantity">>, <<>>)

(***************************************************************************)
(* The feature builder's claims speak of an item's date-ascending sales    *)
(* sequence q1..qn: of the rows of the input table, by sets.               *)
(***************************************************************************)
IsBuild == last.op = "build_features"

InputRows == Range(sales_df.rows)

InputItems == {r.item_id : r \in InputRows}

\* the first n rows of an item's rows R in date order: q1..qn with their dates
RECURSIVE ByDate(_, _)
ByDate(R, n) ==
    IF n = 0 THEN <<>>
    ELSE Append(ByDate(R, n - 1),
                CHOOSE s \in R :
                    Cardinality({t \in R : strptime(t.date) < strptime(s.date)}) = n - 1)

\* the date-ascending sales sequence of an item
SalesSequence(item_id) ==
    LET R == {r \in InputRows : r.item_id = item_id} IN ByDate(R, Cardinality(R))

RECURSIVE SumQ(_, _, _)
SumQ(seq, from, to) ==
    IF from > to THEN 0 ELSE seq[to].quantity + SumQ(seq, from, to - 1)

\* mean of q(max(1, i - window + 1)) .. q(i)
WindowMean(seq, i, window) ==
    LET from == Max(1, i - window + 1)
    IN  Frac(SumQ(seq, from, i), i - from + 1)

\* the rows of the returned table for the input row r
FeatureRowsOf(r) ==
    {f \in Range(feature_df.rows) : f.date = r.date /\ f.item_id = r.item_id}

\* C5: at position i of an item's date-ascending sales sequence q1..qn,
\* lag_1 = q(i-1) (0 when i < 2) and lag_7 = q(i-7) (0 when i < 8), from rows
\* of the same item only, however the items' rows are interleaved.
C5_LagsWithinItem ==
    IsBuild =>
        \A item_id \in InputItems :
            LET q == SalesSequence(item_id) IN
            \A i \in DOMAIN q :
                /\ FeatureRowsOf(q[i]) # {}
                /\ \A f \in FeatureRowsOf(q[i]) :
                      /\ f.lag_1 = (IF i < 2 THEN 0 ELSE q[i - 1].quantity)
                      /\ f.lag_7 = (IF i < 8 THEN 0 ELSE q[i - 7].quantity)

C5_Witness ==
    /\ IsBuild
    /\ \E i \in DOMAIN sales_df.rows :
          i > 1 /\ sales_df.rows[i].item_id # sales_df.rows[i - 1].item_id
    /\ \E f \in Range(feature_df.rows) :
          f.item_id = 1 /\ f.lag_7 = 4 /\ f.lag_1 = 1 /\ f.quantity = 1
    /\ \E f, g \in Range(feature_df.rows) :
          f.item_id = 2 /\ f.lag_1 = 0 /\ g.item_id = 2 /\ g.lag_1 = 2

\* C6: at position i of an item's date-ascending sales sequence,
\* rolling_7 = mean of q(max(1,i-6))..q(i) and rolling_28 = mean of
\* q(max(1,i-27))..q(i): the window holds the current row and shrinks to the
\* rows there are (sales 5 then 7: rolling_7 = 6 on the second row).
C6_RollingMeans ==
    IsBuild =>
        \A item_id \in InputItems :
            LET q == SalesSequence(item_id) IN
            \A i \in DOMAIN q :
                /\ FeatureRowsOf(q[i]) # {}
                /\ \A f \in FeatureRowsOf(q[i]) :
                      /\ f.rolling_7 = WindowMean(q, i, 7)
                      /\ f.rolling_28 = WindowMean(q, i, 28)

C6_Witness ==
    /\ IsBuild
    /\ sales_df = ExampleTable
    /\ feature_df.rows[2].lag_1 = 5
    /\ feature_df.rows[2].rolling_7 = [num |-> 6, den |-> 1]

\* a second reachable case of C6: more than 28 sales, the two windows differ
C6_LongWitness ==
    /\ IsBuild
    /\ \E f \in Range(feature_df.rows) :
          /\ f.rolling_7 # f.rolling_28
          /\ f.rolling_28 = [num |-> 31, den |-> 28]
          /\ Cardinality({g \in Range(feature_df.rows) : g.item_id = f.item_id}) > 28

\* C7: the columns of the returned table are the same fixed set for an
\* empty input, a non-empty input, and a non-empty input without the
\* promotion_discount and/or is_holiday columns; a non-empty input yields
\* exactly one row per input (date, item_id) row.
TheFeatureColumns ==
    {"date", "item_id", "lag_1", "lag_7", "rolling_7", "rolling_28", "day_of_week",
     "month", "promotion_discount", "is_holiday", "quantity"}

C7_FixedColumnsOneRowPerInput ==
    IsBuild =>
        /\ Range(feature_df.columns) = TheFeatureColumns
        /\ Len(feature_df.columns) = Cardinality(TheFeatureColumns)
        /\ \A f \in Range(feature_df.rows) : DOMAIN f = TheFeatureColumns
        /\ Len(feature_df.rows) = Len(sales_df.rows)
        /\ \A r \in InputRows :
              Cardinality({i \in DOMAIN feature_df.rows :
                              /\ feature_df.rows[i].date = r.date
                              /\ feature_df.rows[i].item_id = r.item_id}) = 1

C7_Witness ==
    /\ IsBuild
    /\ sales_df.columns = <<"date", "item_id", "quantity">>
    /\ Len(sales_df.rows) > 2
    /\ Len(feature_df.rows) = Len(sales_df.rows)
    /\ \A f \in Range(feature_df.rows) : f.promotion_discount = 0 /\ f.is_holiday = 0

\* a second reachable case of C7: the empty input
C7_EmptyWitness ==
    /\ IsBuild
    /\ sales_df.rows = <<>>
    /\ feature_df.rows = <<>>
    /\ Range(feature_df.columns) = TheFeatureColumns

(***************************************************************************)
(* Inference-time features.                                                *)
(***************************************************************************)
\* an item's rows of the sales relation, in date order
StoredSequence(item_id) ==
    LET R == {r \in sales : r.item_id = item_id} IN ByDate(R, Cardinality(R))

StepsOf(steps, item_id) == {k \in DOMAIN steps : steps[k].item_id = item_id}

\* C8: the features of an item at inference time: lag_1 = its most recent
\* quantity (0 with no history); lag_7 = its 7th-most-recent quantity with at
\* least 7 observations, else 0; rolling_7 / rolling_28 = the mean of its
\* last 7 / 28 quantities, of all of them when there are fewer, 0 with none.
C8_InferenceFeatures ==
    IsGenerate =>
        \A item_id \in items :
            LET q == StoredSequence(item_id)
                n == Len(q)
            IN  \A k \in StepsOf(last.steps, item_id) :
                    LET x == last.steps[k].x IN
                    /\ x.lag_1 = (IF n = 0 THEN 0 ELSE q[n].quantity)
                    /\ x.lag_7 = (IF n >= 7 THEN q[n - 6].quantity ELSE 0)
                    /\ x.rolling_7 = (IF n = 0 THEN Zero ELSE WindowMean(q, n, 7))
                    /\ x.rolling_28 = (IF n = 0 THEN Zero ELSE WindowMean(q, n, 28))

C8_Witness ==
    /\ IsGenerate
    /\ \E k \in DOMAIN last.steps :
          /\ last.steps[k].item_id = 1
          /\ Len(StoredSequence(1)) > 28
          /\ last.steps[k].x.lag_7 = 4
          /\ last.steps[k].x.lag_1 = 1
          /\ last.steps[k].x.rolling_7 = [num |-> 10, den |-> 7]
          /\ last.steps[k].x.rolling_28 = [num |-> 31, den |-> 28]
    /\ \E k \in DOMAIN last.steps :
          /\ last.steps[k].item_id = 2
          /\ last.steps[k].x.lag_1 = 2 /\ last.steps[k].x.lag_7 = 0
          /\ last.steps[k].x.rolling_28 = [num |-> 2, den |-> 1]

\* a second reachable case of C8: an item with no history
C8_NoHistoryWitness ==
    /\ IsGenerate
    /\ StoredSequence(1) = <<>>
    /\ \E k \in DOMAIN last.steps :
          /\ last.steps[k].item_id = 1
          /\ last.steps[k].x.lag_1 = 0 /\ last.steps[k].x.rolling_7 = Zero

Lags(x) == <<x.lag_1, x.lag_7, x.rolling_7, x.rolling_28>>

\* C9: within one call, the lag and rolling features of an item are the same
\* for every target date, and they are a function of the sales relation
\* alone: the forecasts made earlier in the run, and those an earlier run
\* persisted, do not enter them (the sales relation is the same in all runs
\* of a behaviour here).
C9_NoAutoregressiveFeedback ==
    \A a, b \in DOMAIN invocations :
        \A j \in DOMAIN invocations[a].steps, k \in DOMAIN invocations[b].steps :
            LET s == invocations[a].steps[j]
                t == invocations[b].steps[k]
            IN  s.item_id = t.item_id =>
                    /\ Lags(s.x) = Lags(t.x)
                    /\ Lags(s.x) = Lags(inference_lags(item_sales_of(load_sales_data, s.item_id)))

C9_Witness ==
    /\ Len(invocations) = 2
    /\ config.horizon >= 2
    /\ \E k \in DOMAIN invocations[2].steps :
          LET s == invocations[2].steps[k] IN
          /\ s.x.lag_1 # 0
          /\ s.date # strftime(today)
          /\ \E f \in RowsOfRun(invocations[1].run_id) :
                f.item_id = s.item_id /\ f.predicted_quantity # s.x.lag_1

(***************************************************************************)
(* Model selection.                                                        *)
(***************************************************************************)
Family(config_type) ==
    IF config_type \in {"catboost", "CatBoost"} THEN "catboost"
    ELSE IF config_type = "lightgbm" THEN "lightgbm"
    ELSE "other"

\* the ordered fallback chain: the configured family, then the secondary
\* family, then the generic ensemble regressor, else an error
FallbackChain(config_type, avail) ==
    LET family == Family(config_type) IN
    IF family = "catboost" /\ avail.catboost THEN "CatBoostRegressor"
    ELSE IF family = "lightgbm" /\ avail.lightgbm THEN "LGBMRegressor"
    ELSE IF family = "catboost" /\ avail.lightgbm THEN "LGBMRegressor"
    ELSE IF family = "lightgbm" /\ avail.catboost THEN "CatBoostRegressor"
    ELSE IF avail.sklearn THEN "RandomForestRegressor"
    ELSE IF family = "other" /\ avail.catboost THEN "CatBoostRegressor"
    ELSE IF family = "other" /\ avail.lightgbm THEN "LGBMRegressor"
    ELSE "ImportError"

\* C10: model selection follows the ordered fallback chain: the configured
\* family when its implementation is available; else the secondary family
\* when that one is available; else the generic ensemble regressor; it fails
\* only when no implementation at all is available.
C10_FallbackChain ==
    last.op = "train_model" =>
        /\ last.model = FallbackChain(config.model_type, env)
        /\ last.raised <=> (~env.catboost /\ ~env.lightgbm /\ ~env.sklearn)

(***************************************************************************)
(* Training: the artifact and the audit row.                               *)
(***************************************************************************)
IsTrain == last.op = "train_model"

TrainReturned == IsTrain /\ ~last.raised

\* C11: a train_model call that returns (empty table, table without
\* quantity, normal table) leaves at the latest path the loadable artifact it
\* fitted; a call that raises and a forecast run leave the artifact alone;
\* so a forecast run after a completed training never takes the "model not
\* found" branch (nor the load-error one).
C11_ArtifactAfterTraining ==
    [][/\ TrainReturned' => (artifact' = last'.fitted /\ artifact'.state = "ok")
       /\ (IsTrain' /\ last'.raised) => artifact' = artifact
       /\ IsGenerate' =>
             /\ artifact' = artifact
             /\ artifact.state = "ok" =>
                   last'.branch \notin {"model_not_found", "load_error"}]_vars

C11_Witness ==
    /\ IsGenerate
    /\ last.branch = "forecast"
    /\ artifact.state = "ok" /\ artifact.family = "RandomForestRegressor"
    /\ model_runs = {}
    /\ forecasts # {}

\* a second reachable case of C11: training on an empty feature table
C11_EmptyTableWitness ==
    /\ TrainReturned
    /\ last.shape = "empty"
    /\ artifact = last.fitted

\* C12: a failure while the model_runs row is written does not fail
\* train_model: the call returns the fitted model and the metrics summary,
\* and the artifact written before the audit step is in place.
C12_AuditFailureSwallowed ==
    (IsTrain /\ last.audit_error) =>
        /\ ~last.raised
        /\ artifact = last.fitted
        /\ last.fitted.family = last.model
        /\ DOMAIN last.metrics = {"mae", "wape", "model_type"}
        /\ last.metrics.mae = 0 /\ last.metrics.wape = 0

C12_Witness ==
    /\ IsTrain /\ last.audit_error /\ ~last.raised
    /\ artifact = last.fitted
    /\ model_runs = {}
    /\ last.shape = "normal"

(***************************************************************************)
(* Ingestion.                                                              *)
(***************************************************************************)
IsIngest == last.op = "preprocess_hipos_file"

\* C13: after an ingestion the daily_item_sales relation holds exactly one
\* row per (date, item_id) key, and for every key of the ingested file the
\* row carries the value of that (the latest) ingestion.
C13_OneRowPerIngestedKey ==
    IsIngest =>
        /\ KeyUnique(sales)
        /\ \A r \in last.aggregated_records :
              \E s \in sales :
                  s.date = r.date /\ s.item_id = r.item_id /\ s.quantity = r.quantity

\* the same statement on a store whose table has the two exogenous columns
C13_WithPromoColumns == hasPromoCols => C13_OneRowPerIngestedKey

(***************************************************************************)
(* The forecasts relation, run by run.                                     *)
(***************************************************************************)
Triples(rows) == {<<r.date, r.item_id, r.predicted_quantity>> : r \in rows}

\* C14: the rows of the forecasts relation with run_id = R are exactly the
\* (date, item_id, predicted_quantity) triples the call that generated R
\* returned, no more and no fewer, also beside rows of other runs for the
\* same (date, item_id).
C14_RoundTrip ==
    \A k \in DOMAIN invocations :
        LET returned == invocations[k].result.rows
            stored == RowsOfRun(invocations[k].run_id)
        IN  /\ Triples(stored) = Triples(Range(returned))
            /\ Cardinality(stored) = Len(returned)

C14_Witness ==
    /\ Len(invocations) = 2
    /\ \E f \in RowsOfRun(invocations[1].run_id), g \in RowsOfRun(invocations[2].run_id) :
          /\ f.date = g.date /\ f.item_id = g.item_id
          /\ f.predicted_quantity > 0
    /\ Triples(RowsOfRun(invocations[1].run_id)) # Triples(RowsOfRun(invocations[2].run_id))

(***************************************************************************)
(* The history window of a forecast run.                                   *)
(***************************************************************************)
\* an item's rows of the sales relation dated day or earlier, in date order
SequenceUpTo(item_id, day) ==
    LET R == {r \in sales : r.item_id = item_id /\ strptime(r.date) <= day}
    IN  ByDate(R, Cardinality(R))

LagsOfSequence(q) ==
    LET n == Len(q) IN
    <<IF n = 0 THEN 0 ELSE q[n].quantity,
      IF n >= 7 THEN q[n - 6].quantity ELSE 0,
      IF n = 0 THEN Zero ELSE WindowMean(q, n, 7),
      IF n = 0 THEN Zero ELSE WindowMean(q, n, 28)>>

\* C15: the lag and rolling features of a run are built from the history up
\* to today (the rows dated before today, or those up to and including
\* today): rows staged under later forecast dates contribute to none of them.
C15_HistoryStopsAtToday ==
    IsGenerate =>
        \A k \in DOMAIN last.steps :
            LET st == last.steps[k] IN
            Lags(st.x) \in {LagsOfSequence(SequenceUpTo(st.item_id, last.today - 1)),
                           LagsOfSequence(SequenceUpTo(st.item_id, last.today))}

(***************************************************************************)
(* Failed predictions.                                                     *)
(***************************************************************************)
\* C16: a prediction that fails for one (date, item) gives that pair 0;
\* every other pair keeps the value the model returned for it, clamped at 0;
\* the run goes on, and all horizon x items rows are persisted under the
\* run's one run_id.
C16_PredictionFailureIsolated ==
    (IsGenerate /\ last.branch = "forecast") =>
        LET written == RowsOfRun(last.run_id)
            n == config.horizon * Cardinality(items)
        IN  /\ Len(last.steps) = n
            /\ Len(last.result.rows) = n
            /\ n > 0 => (Cardinality(written) = n /\ written = last.inserted)
            /\ \A k \in DOMAIN last.steps :
                  LET st == last.steps[k]
                      expected == IF ~st.outcome.ok THEN 0
                                  ELSE IF st.outcome.val < 0 THEN 0 ELSE st.outcome.val
                  IN  /\ last.result.rows[k] =
                            [date |-> st.date, item_id |-> st.item_id,
                             predicted_quantity |-> expected]
                      /\ [date |-> st.date, item_id |-> st.item_id,
                          predicted_quantity |-> expected, run_id |-> last.run_id]
                            \in written

C16_Witness ==
    /\ IsGenerate /\ last.branch = "forecast"
    /\ config.horizon = MaxHorizon
    /\ \E j, k \in DOMAIN last.steps :
          /\ j < k
          /\ ~last.steps[j].outcome.ok /\ last.steps[j].predicted_quantity = 0
          /\ last.steps[k].outcome.ok /\ last.steps[k].predicted_quantity = 2
    /\ Cardinality(RowsOfRun(last.run_id)) = 2 * MaxHorizon

(***************************************************************************)
(* The recorded model type.                                                *)
(***************************************************************************)
\* the family of the regressor class that was selected and fitted
ResolvedFamily(class) ==
    CASE class = "CatBoostRegressor" -> "catboost"
      [] class = "LGBMRegressor" -> "lightgbm"
      [] class = "RandomForestRegressor" -> "random_forest"

\* the family a recorded model type names (letter case aside)
RecordedFamily(model_type) ==
    IF model_type \in {"catboost", "CatBoost"} THEN "catboost"
    ELSE IF model_type = "lightgbm" THEN "lightgbm"
    ELSE IF model_type \in {"random_forest", "RandomForestRegressor"} THEN "random_forest"
    ELSE "other"

\* C17: the model type in the returned metrics and in the model_type column
\* of the appended model_runs row is the resolved one: the family of the
\* regressor that was selected and fitted.
C17_ResolvedModelTypeRecorded ==
    TrainReturned =>
        /\ RecordedFamily(last.metrics.model_type) = ResolvedFamily(last.model)
        /\ \A row \in model_runs :
              RecordedFamily(row.model_type) = ResolvedFamily(last.model)

(***************************************************************************)
(* Configuration errors.                                                   *)
(***************************************************************************)
\* the fields train_model reads: model.type (lines 36, 100, 112),
\* paths.model_dir (line 89), database.path (line 105)
ConsumedByTrain == {"model.type", "paths.model_dir", "database.path"}

\* the fields generate_forecasts reads on the path it takes: paths.model_dir
\* always; forecast.horizon and database.path once the artifact is loaded
ConsumedByGenerate ==
    IF artifact.state = "ok"
    THEN {"paths.model_dir", "forecast.horizon", "database.path"}
    ELSE {"paths.model_dir"}

NoCapability == ~env.catboost /\ ~env.lightgbm /\ ~env.sklearn

\* C18: with a required field that the operation consumes missing from the
\* configuration, or with no model capability at all, train_model /
\* generate_forecasts raises and has written neither the artifact nor a row
\* of the store.
C18_ConfigErrorNoPartialWrite ==
    [][/\ (IsTrain' /\ (config.missing \cap ConsumedByTrain # {} \/ NoCapability)) =>
             /\ last'.raised
             /\ artifact' = artifact
             /\ model_runs' = model_runs /\ forecasts' = forecasts
       /\ (IsGenerate' /\ config.missing \cap ConsumedByGenerate # {}) =>
             /\ last'.raised
             /\ artifact' = artifact
             /\ model_runs' = model_runs /\ forecasts' = forecasts]_vars

(***************************************************************************)
(* Store connections.                                                      *)
(***************************************************************************)
\* C19: every connection a generate_forecasts or train_model call acquires
\* (those of load_sales_data included) is closed when the call ends, on
\* every path.
C19_ConnectionsReleased ==
    (IsGenerate \/ IsTrain) => last.open_connections = 0

(***************************************************************************)
(* The frame of a forecast run.                                            *)
(***************************************************************************)
\* C20: a generate_forecasts call only adds rows that carry its own new
\* run_id to the forecasts relation: the rows of earlier runs stay as they
\* are, and so do the items, daily_item_sales and model_runs relations and
\* the model artifact.
C20_ForecastRunFrame ==
    [][IsGenerate' =>
          /\ forecasts \subseteq forecasts'
          /\ \A f \in forecasts' \ forecasts :
                f.run_id = last'.run_id /\ f.run_id \notin RunIds(forecasts)
          /\ items' = items /\ sales' = sales
          /\ model_runs' = model_runs /\ artifact' = artifact]_vars

C20_Witness ==
    /\ IsGenerate
    /\ Len(invocations) = 2
    /\ last.run_id = invocations[2].run_id
    /\ \E f \in RowsOfRun(invocations[1].run_id), g \in last.inserted :
          f.date = g.date /\ f.item_id = g.item_id /\ f.run_id # g.run_id
    /\ model_runs # {} /\ sales # {} /\ artifact.state = "ok"

====
